---- MODULE Spec2Model ----
\* A model of go-anyway/framework-mongodb: the command trace monitor
\* (src/trace.go) run by concurrent driver goroutines, and the client facade
\* (NewMongoDB / Close / Ping / Collection) over the driver's connection.
EXTENDS Integers, Sequences, FiniteSets, TLC

\* ------------------------------------------------------------------ bounds
MaxProcs == 2          \* goroutines delivering driver callbacks
MaxRequestID == 2      \* request identifiers 1..MaxRequestID
MaxCalls == 4          \* callback invocations in one behaviour

MaxOps == 4            \* facade operations in one behaviour
MaxFacades == 2        \* MongoDBClient values in one behaviour

MaxPoolSizeArg == 2    \* pool sizes of a Config: -1..MaxPoolSizeArg
MaxTimeoutArg == 1     \* timeouts of a Config: -1..MaxTimeoutArg ms and the defaults

MaxLen == 2            \* characters of a user name or password given to buildURI

Procs == 1..MaxProcs
RequestIDs == 1..MaxRequestID
Databases == {"a", "b"}
Commands == {"find"}

\* ------------------------------------------------------------------ state
VARIABLES
  enableTrace,         \* traceCommandMonitor.enableTrace
  commandDatabaseMap,  \* RequestID -> DatabaseName, or the nil map
  commandSpanMap,      \* RequestID -> span handle, or the nil map
  mu,                  \* holder of the monitor's lock, NoProc when free
  pc,                  \* position of each goroutine in its callback
  evt,                 \* the event each goroutine's callback was called with
  dbName,              \* local dbName of Succeeded / Failed
  span,                \* local span of Started / Succeeded / Failed
  hit,                 \* whether Succeeded / Failed found an entry for its identifier
  spanOps,             \* tracing collaborator: the operations on each live span
  dropped,             \* tracing collaborator: spans that died without End
  log,                 \* logging collaborator: the records of each running callback
  received,            \* per identifier: the notifications the driver has delivered
  latest               \* per identifier: database name of the pending Started

monitorVars == <<enableTrace, commandDatabaseMap, commandSpanMap, mu, pc, evt,
                 dbName, span, hit, spanOps, dropped, log, received, latest>>

VARIABLES
  opc,                 \* position of the caller inside newMongoDB
  oopts,               \* opts of the running newMongoDB
  oclientOptions,      \* clientOptions built by the running newMongoDB
  oclient,             \* client returned by mongo.Connect to the running newMongoDB
  otrace,              \* driver: the calls of the last newMongoDB and their results
  clients,             \* driver: the client objects mongo.Connect has created
  monitors,            \* the traceCommandMonitor instances constructed
  facades,             \* the MongoDBClient values, by handle
  closes,              \* per MongoDBClient: the Close calls made on it
  ret,                 \* what the last finished facade operation returned
  nops                 \* facade operations begun

facadeVars == <<opc, oopts, oclientOptions, oclient, otrace, clients, monitors, facades,
                closes, ret, nops>>

VARIABLES
  config,              \* the *Config that Validate and ToOptions are called on
  vret,                \* what Validate returned, once it has been called
  tret                 \* what ToOptions returned, once it has been called

translatorVars == <<config, vret, tret>>

VARIABLES
  uopts,               \* the *Options that buildURI is called with
  uri                  \* what buildURI returned, once it has been called

uriVars == <<uopts, uri>>

vars == <<monitorVars, facadeVars, translatorVars, uriVars>>

NoProc == 0
NilSpan == 0

\* A Go map: nil until make() is called; kv is the stored key/value function.
NilMap == [nil |-> TRUE, kv |-> <<>>]
MakeMap == [nil |-> FALSE, kv |-> <<>>]

\* m[k] of Go: the zero value when the key is absent or the map is nil.
MapGet(m, k, zero) == IF k \in DOMAIN m.kv THEN m.kv[k] ELSE zero

\* A delete that empties the map.
MapDelete_All(m, k) == [m EXCEPT !.kv = <<>>]

\* delete(m, k) of Go: a no-op on a nil map or an absent key.
MapDelete(m, k) == [m EXCEPT !.kv = [x \in (DOMAIN m.kv) \ {k} |-> m.kv[x]]]

\* A map assignment that keeps the value of a key already present.
MapPut_KeepFirst(m, k, v) ==
  [m EXCEPT !.kv = [x \in (DOMAIN m.kv) \cup {k} |->
                      IF x \in DOMAIN m.kv THEN m.kv[x] ELSE v]]

\* m[k] = v of Go on an allocated map (assignment to a nil map panics).
MapPut(m, k, v) ==
  [m EXCEPT !.kv = [x \in (DOMAIN m.kv) \cup {k} |-> IF x = k THEN v ELSE m.kv[x]]]

MapKeys(m) == DOMAIN m.kv
MapValues(m) == {m.kv[k] : k \in DOMAIN m.kv}

NoEvent == [kind |-> "none", RequestID |-> 0, DatabaseName |-> "", CommandName |-> ""]

\* strconv.FormatInt(n, 10) for the identifiers of the model: the digits.
Digit(d) == CASE d = 0 -> "0" [] d = 1 -> "1" [] d = 2 -> "2" [] d = 3 -> "3"
              [] d = 4 -> "4" [] d = 5 -> "5" [] d = 6 -> "6" [] d = 7 -> "7"
              [] d = 8 -> "8" [] OTHER -> "9"
RECURSIVE FormatInt(_)
FormatInt(n) ==
  IF n < 0 THEN <<"-">> \o FormatInt(0 - n)
  ELSE IF n < 10 THEN <<Digit(n)>>
  ELSE Append(FormatInt(n \div 10), Digit(n % 10))

NoneReceived == [started |-> 0, completed |-> 0, first |-> "none"]

\* newTraceCommandMonitor: only enableTrace is set, both maps are nil.
MonitorInit ==
  /\ enableTrace \in BOOLEAN
  /\ commandDatabaseMap = NilMap
  /\ commandSpanMap = NilMap
  /\ mu = NoProc
  /\ pc = [p \in Procs |-> "idle"]
  /\ evt = [p \in Procs |-> NoEvent]
  /\ dbName = [p \in Procs |-> ""]
  /\ span = [p \in Procs |-> NilSpan]
  /\ hit = [p \in Procs |-> FALSE]
  /\ spanOps = <<>>
  /\ dropped = 0
  /\ log = [p \in Procs |-> <<>>]
  /\ received = [id \in RequestIDs |-> NoneReceived]
  /\ latest = [id \in RequestIDs |-> ""]

\* -------------------------------------------------- collaborators (ghost)
\* One operation of the tracing collaborator, made by goroutine p; "locked"
\* records whether p held the monitor's lock when it made the call.
SpanOp(p, o, a) == [op |-> o, arg |-> a, locked |-> (mu = p)]

\* The span handles some variable still refers to, given the map and the locals.
Referenced(m, locals) == (MapValues(m) \cup {locals[p] : p \in Procs}) \ {NilSpan}

Ended(ops) == \E i \in 1..Len(ops) : ops[i].op = "End"

\* A span object lives while something refers to it: the tracing collaborator
\* keeps the operations of the live spans and counts those that die un-ended.
Collect(ops, m, locals) == [s \in (DOMAIN ops) \cap Referenced(m, locals) |-> ops[s]]

Unended(ops, m, locals) ==
  Cardinality({s \in (DOMAIN ops) \ Referenced(m, locals) : ~Ended(ops[s])})

\* A handle for a new span object: one that no live span has.
NewSpan == CHOOSE s \in 1..(Cardinality(DOMAIN spanOps) + 1) : s \notin DOMAIN spanOps

\* One record of the logging collaborator.
LogRecord(p, lvl, msg) ==
  [level |-> lvl, message |-> msg, command |-> evt[p].CommandName,
   database |-> dbName[p], request_id |-> FormatInt(evt[p].RequestID),
   locked |-> (mu = p)]

\* The notifications the driver has delivered so far, and the identifiers used.
Delivered(id) == received[id].started + received[id].completed
UsedIDs == {id \in RequestIDs : Delivered(id) > 0}
NumCalls == LET RECURSIVE Sum(_)
                Sum(n) == IF n = 0 THEN 0 ELSE Delivered(n) + Sum(n - 1)
            IN Sum(MaxRequestID)

\* The driver invokes a callback on goroutine p with event e, and the callback
\* takes the lock, m.mu.Lock(), which blocks while another goroutine holds it:
\* a callback touches no state before it holds the lock. Goroutines are
\* anonymous and identifiers are opaque keys, so the callback runs on the
\* first idle goroutine and an identifier is first used after all smaller
\* ones (the driver's request-id counter); any identifier may be used again.
Invoke(p, e, next) ==
  /\ pc[p] = "idle"
  /\ \A q \in Procs : q < p => pc[q] # "idle"
  /\ \A j \in RequestIDs : j < e.RequestID => j \in UsedIDs
  /\ NumCalls < MaxCalls
  /\ mu = NoProc
  /\ mu' = p
  /\ evt' = [evt EXCEPT ![p] = e]
  /\ received' = [received EXCEPT ![e.RequestID] =
                    [started |-> @.started + (IF e.kind = "Started" THEN 1 ELSE 0),
                     completed |-> @.completed + (IF e.kind = "Started" THEN 0 ELSE 1),
                     first |-> IF @.first = "none" THEN e.kind ELSE @.first]]
  /\ pc' = [pc EXCEPT ![p] = next]
  /\ UNCHANGED <<enableTrace, commandDatabaseMap, commandSpanMap, dbName, span,
                 hit, spanOps, dropped, log, latest>>

\* The callback returns: its locals die with the call.
Leave(p) ==
  /\ pc' = [pc EXCEPT ![p] = "idle"]
  /\ evt' = [evt EXCEPT ![p] = NoEvent]
  /\ dbName' = [dbName EXCEPT ![p] = ""]
  /\ span' = [span EXCEPT ![p] = NilSpan]
  /\ hit' = [hit EXCEPT ![p] = FALSE]
  /\ log' = [log EXCEPT ![p] = <<>>]
  /\ spanOps' = Collect(spanOps, commandSpanMap, span')
  /\ dropped' = dropped + Unended(spanOps, commandSpanMap, span')

\* ---------------------------------------------------------------- Started
StartedLock(p) ==
  /\ UNCHANGED <<facadeVars, translatorVars, uriVars>>
  /\ \E id \in RequestIDs, db \in Databases, cmd \in Commands :
      Invoke(p, [kind |-> "Started", RequestID |-> id, DatabaseName |-> db,
                 CommandName |-> cmd], "S_putdb")


\* if m.commandDatabaseMap == nil { m.commandDatabaseMap = make(...) }
StartedMakeDatabaseMap(m) == IF m.nil THEN MakeMap ELSE m

\* if m.commandSpanMap == nil { m.commandSpanMap = make(...) }
StartedMakeSpanMap(m) == IF m.nil THEN MakeMap ELSE m

\* m.commandDatabaseMap[evt.RequestID] = evt.DatabaseName
StartedPutDatabase(p) ==
  /\ UNCHANGED <<facadeVars, translatorVars, uriVars>>
  /\ pc[p] = "S_putdb"
  /\ LET m == StartedMakeDatabaseMap(commandDatabaseMap) IN
       IF m.nil
       THEN /\ pc' = [pc EXCEPT ![p] = "panic"]
            /\ UNCHANGED <<commandDatabaseMap, latest>>
       ELSE /\ commandDatabaseMap' = MapPut(m, evt[p].RequestID, evt[p].DatabaseName)
            /\ latest' = [latest EXCEPT ![evt[p].RequestID] = evt[p].DatabaseName]
            /\ pc' = [pc EXCEPT ![p] = IF enableTrace THEN "S_span" ELSE "S_unlock"]
  /\ UNCHANGED <<enableTrace, commandSpanMap, mu, evt, dbName, span, hit, spanOps,
                 dropped, log, received>>

\* pkgtrace.StartSpan(ctx, "mongodb." + evt.CommandName, attributes...)
StartedStartSpan(p) ==
  /\ UNCHANGED <<facadeVars, translatorVars, uriVars>>
  /\ pc[p] = "S_span"
  /\ commandSpanMap' = StartedMakeSpanMap(commandSpanMap)
  /\ span' = [span EXCEPT ![p] = NewSpan]
  /\ spanOps' = [s \in (DOMAIN spanOps) \cup {NewSpan} |->
                   IF s = NewSpan THEN <<SpanOp(p, "Start", evt[p].DatabaseName)>>
                                  ELSE spanOps[s]]
  /\ pc' = [pc EXCEPT ![p] = "S_putspan"]
  /\ UNCHANGED <<enableTrace, commandDatabaseMap, mu, evt, dbName, hit, dropped, log,
                 received, latest>>

\* Started keeps the span to itself: the span map gets no entry.
StartedPutSpan_Skipped(p) ==
  /\ pc[p] = "S_putspan"
  /\ pc' = [pc EXCEPT ![p] = "S_unlock"]
  /\ UNCHANGED <<enableTrace, commandDatabaseMap, commandSpanMap, mu, evt, dbName,
                 span, hit, spanOps, dropped, log, received, latest>>
  /\ UNCHANGED <<facadeVars, translatorVars, uriVars>>

\* m.commandSpanMap[evt.RequestID] = span
StartedPutSpan(p) ==
  /\ UNCHANGED <<facadeVars, translatorVars, uriVars>>
  /\ pc[p] = "S_putspan"
  /\ IF commandSpanMap.nil
     THEN /\ pc' = [pc EXCEPT ![p] = "panic"]
          /\ UNCHANGED <<commandSpanMap, spanOps, dropped>>
     ELSE /\ commandSpanMap' = MapPut(commandSpanMap, evt[p].RequestID, span[p])
          /\ spanOps' = Collect(spanOps, commandSpanMap', span)
          /\ dropped' = dropped + Unended(spanOps, commandSpanMap', span)
          /\ pc' = [pc EXCEPT ![p] = "S_unlock"]
  /\ UNCHANGED <<enableTrace, commandDatabaseMap, mu, evt, dbName, span, hit, log,
                 received, latest>>

\* Started returns with the lock still held.
StartedUnlock_KeepLock(p) ==
  /\ UNCHANGED <<facadeVars, translatorVars, uriVars>>
  /\ pc[p] = "S_unlock"
  /\ Leave(p)
  /\ UNCHANGED <<enableTrace, commandDatabaseMap, commandSpanMap, mu, received, latest>>

\* m.mu.Unlock(), and Started returns.
StartedUnlock(p) ==
  /\ UNCHANGED <<facadeVars, translatorVars, uriVars>>
  /\ pc[p] = "S_unlock"
  /\ mu' = NoProc
  /\ Leave(p)
  /\ UNCHANGED <<enableTrace, commandDatabaseMap, commandSpanMap, received, latest>>

\* ------------------------------------------------- Succeeded and Failed
\* A missing entry reads as a placeholder name instead of the zero value.
TakeDatabaseName_Placeholder(m, id) == MapGet(m, id, "unknown")

\* dbName := m.commandDatabaseMap[evt.RequestID]
TakeDatabaseName(m, id) == MapGet(m, id, "")

\* The database-name entry is read and left in the map.
RemoveDatabaseName_Keep(m, id) == m

\* delete(m.commandDatabaseMap, evt.RequestID)
RemoveDatabaseName(m, id) == MapDelete(m, id)

\* span = m.commandSpanMap[evt.RequestID], under m.enableTrace && map != nil
TakeSpan(m, id) == IF enableTrace /\ ~m.nil THEN MapGet(m, id, NilSpan) ELSE NilSpan

\* The span entry is read and left in the map.
RemoveSpan_Keep(m, id) == m

\* delete(m.commandSpanMap, evt.RequestID), under the same condition
RemoveSpan(m, id) == IF enableTrace /\ ~m.nil THEN MapDelete(m, id) ELSE m

\* The critical section of Succeeded and of Failed: read and delete both entries.
Take(p, at, next) ==
  /\ pc[p] = at
  /\ dbName' = [dbName EXCEPT ![p] = TakeDatabaseName(commandDatabaseMap, evt[p].RequestID)]
  /\ commandDatabaseMap' = RemoveDatabaseName(commandDatabaseMap, evt[p].RequestID)
  /\ span' = [span EXCEPT ![p] = TakeSpan(commandSpanMap, evt[p].RequestID)]
  /\ commandSpanMap' = RemoveSpan(commandSpanMap, evt[p].RequestID)
  /\ hit' = [hit EXCEPT ![p] = evt[p].RequestID \in MapKeys(commandDatabaseMap)]
  /\ latest' = [latest EXCEPT ![evt[p].RequestID] = ""]
  /\ pc' = [pc EXCEPT ![p] = next]
  /\ UNCHANGED <<enableTrace, mu, evt, spanOps, dropped, log, received>>

\* m.mu.Unlock(), then the test  if m.enableTrace && span != nil.
Unlock(p, at, traced, untraced) ==
  /\ pc[p] = at
  /\ mu' = NoProc
  /\ pc' = [pc EXCEPT ![p] = IF enableTrace /\ span[p] # NilSpan THEN traced ELSE untraced]
  /\ UNCHANGED <<enableTrace, commandDatabaseMap, commandSpanMap, evt, dbName, span,
                 hit, spanOps, dropped, log, received, latest>>

\* One call of a span method by goroutine p on its local span.
SpanStep(p, at, o, a, next) ==
  /\ pc[p] = at
  /\ spanOps' = [spanOps EXCEPT ![span[p]] = Append(@, SpanOp(p, o, a))]
  /\ pc' = [pc EXCEPT ![p] = next]
  /\ UNCHANGED <<enableTrace, commandDatabaseMap, commandSpanMap, mu, evt, dbName,
                 span, hit, dropped, log, received, latest>>

\* log.FromContext(ctx).Info / .Error
LogStep(p, at, lvl, msg, next) ==
  /\ pc[p] = at
  /\ log' = [log EXCEPT ![p] = Append(@, LogRecord(p, lvl, msg))]
  /\ pc' = [pc EXCEPT ![p] = next]
  /\ UNCHANGED <<enableTrace, commandDatabaseMap, commandSpanMap, mu, evt, dbName,
                 span, hit, spanOps, dropped, received, latest>>

\* The closing brace of Succeeded / Failed: the callback returns.
ReturnStep(p, at) ==
  /\ pc[p] = at
  /\ Leave(p)
  /\ UNCHANGED <<enableTrace, commandDatabaseMap, commandSpanMap, mu, received, latest>>

SucceededLock(p) ==
  /\ UNCHANGED <<facadeVars, translatorVars, uriVars>>
  /\ \E id \in RequestIDs, cmd \in Commands :
      Invoke(p, [kind |-> "Succeeded", RequestID |-> id, DatabaseName |-> "",
                 CommandName |-> cmd], "U_take")

SucceededTake(p) ==
  /\ Take(p, "U_take", "U_unlock")
  /\ UNCHANGED <<facadeVars, translatorVars, uriVars>>

SucceededUnlock(p) ==
  /\ Unlock(p, "U_unlock", "U_attr", "U_log")
  /\ UNCHANGED <<facadeVars, translatorVars, uriVars>>

SucceededSetAttributes(p) ==
  /\ SpanStep(p, "U_attr", "SetAttributes", "db.duration_ms", "U_status")
  /\ UNCHANGED <<facadeVars, translatorVars, uriVars>>

SucceededSetStatus(p) ==
  /\ SpanStep(p, "U_status", "SetStatus", "Ok", "U_end")
  /\ UNCHANGED <<facadeVars, translatorVars, uriVars>>

SucceededEnd(p) ==
  /\ SpanStep(p, "U_end", "End", "", "U_log")
  /\ UNCHANGED <<facadeVars, translatorVars, uriVars>>

SucceededLog(p) ==
  /\ LogStep(p, "U_log", "info", "MongoDB command success", "U_ret")
  /\ UNCHANGED <<facadeVars, translatorVars, uriVars>>

SucceededReturn(p) ==
  /\ ReturnStep(p, "U_ret")
  /\ UNCHANGED <<facadeVars, translatorVars, uriVars>>

FailedLock(p) ==
  /\ UNCHANGED <<facadeVars, translatorVars, uriVars>>
  /\ \E id \in RequestIDs, cmd \in Commands :
      Invoke(p, [kind |-> "Failed", RequestID |-> id, DatabaseName |-> "",
                 CommandName |-> cmd], "F_take")

FailedTake(p) ==
  /\ Take(p, "F_take", "F_unlock")
  /\ UNCHANGED <<facadeVars, translatorVars, uriVars>>

FailedUnlock(p) ==
  /\ Unlock(p, "F_unlock", "F_attr", "F_log")
  /\ UNCHANGED <<facadeVars, translatorVars, uriVars>>

FailedSetAttributes(p) ==
  /\ SpanStep(p, "F_attr", "SetAttributes", "db.duration_ms", "F_status")
  /\ UNCHANGED <<facadeVars, translatorVars, uriVars>>

FailedSetStatus(p) ==
  /\ SpanStep(p, "F_status", "SetStatus", "Error", "F_record")
  /\ UNCHANGED <<facadeVars, translatorVars, uriVars>>

\* Failed goes on to End without recording the error on the span.
FailedRecordError_Skipped(p) ==
  /\ pc[p] = "F_record"
  /\ pc' = [pc EXCEPT ![p] = "F_end"]
  /\ UNCHANGED <<enableTrace, commandDatabaseMap, commandSpanMap, mu, evt, dbName,
                 span, hit, spanOps, dropped, log, received, latest>>
  /\ UNCHANGED <<facadeVars, translatorVars, uriVars>>

FailedRecordError(p) ==
  /\ SpanStep(p, "F_record", "RecordError", "Error", "F_end")
  /\ UNCHANGED <<facadeVars, translatorVars, uriVars>>

FailedEnd(p) ==
  /\ SpanStep(p, "F_end", "End", "", "F_log")
  /\ UNCHANGED <<facadeVars, translatorVars, uriVars>>

FailedLog(p) ==
  /\ LogStep(p, "F_log", "error", "MongoDB command failed", "F_ret")
  /\ UNCHANGED <<facadeVars, translatorVars, uriVars>>

FailedReturn(p) ==
  /\ ReturnStep(p, "F_ret")
  /\ UNCHANGED <<facadeVars, translatorVars, uriVars>>

\* ------------------------------------------- callbacks waiting for the lock
\* The same callbacks with the call and m.mu.Lock() as two steps: a callback
\* that has been invoked stands before Lock until the lock is free.
Waiting == {"S_lock", "U_lock", "F_lock"}
Pending == {q \in Procs : pc[q] \in Waiting}

\* The driver invokes a callback on goroutine p with event e.
Call(p, e, at) ==
  /\ pc[p] = "idle"
  /\ \A q \in Procs : q < p => pc[q] # "idle"
  /\ \A j \in RequestIDs :
       j < e.RequestID => j \in UsedIDs \cup {evt[q].RequestID : q \in Pending}
  /\ NumCalls + Cardinality(Pending) < MaxCalls
  /\ evt' = [evt EXCEPT ![p] = e]
  /\ pc' = [pc EXCEPT ![p] = at]
  /\ UNCHANGED <<enableTrace, commandDatabaseMap, commandSpanMap, mu, dbName, span,
                 hit, spanOps, dropped, log, received, latest>>

\* m.mu.Lock(): returns once the lock is free, and then p holds it.
Acquire(p, at, next) ==
  /\ pc[p] = at
  /\ mu = NoProc
  /\ mu' = p
  /\ received' = [received EXCEPT ![evt[p].RequestID] =
                    [started |-> @.started + (IF evt[p].kind = "Started" THEN 1 ELSE 0),
                     completed |-> @.completed + (IF evt[p].kind = "Started" THEN 0 ELSE 1),
                     first |-> IF @.first = "none" THEN evt[p].kind ELSE @.first]]
  /\ pc' = [pc EXCEPT ![p] = next]
  /\ UNCHANGED <<enableTrace, commandDatabaseMap, commandSpanMap, evt, dbName, span,
                 hit, spanOps, dropped, log, latest>>

StartedCall(p) ==
  /\ UNCHANGED <<facadeVars, translatorVars, uriVars>>
  /\ \E id \in RequestIDs, db \in Databases, cmd \in Commands :
      Call(p, [kind |-> "Started", RequestID |-> id, DatabaseName |-> db,
               CommandName |-> cmd], "S_lock")

StartedAcquire(p) ==
  /\ Acquire(p, "S_lock", "S_putdb")
  /\ UNCHANGED <<facadeVars, translatorVars, uriVars>>

SucceededCall(p) ==
  /\ UNCHANGED <<facadeVars, translatorVars, uriVars>>
  /\ \E id \in RequestIDs, cmd \in Commands :
      Call(p, [kind |-> "Succeeded", RequestID |-> id, DatabaseName |-> "",
               CommandName |-> cmd], "U_lock")

SucceededAcquire(p) ==
  /\ Acquire(p, "U_lock", "U_take")
  /\ UNCHANGED <<facadeVars, translatorVars, uriVars>>

FailedCall(p) ==
  /\ UNCHANGED <<facadeVars, translatorVars, uriVars>>
  /\ \E id \in RequestIDs, cmd \in Commands :
      Call(p, [kind |-> "Failed", RequestID |-> id, DatabaseName |-> "",
               CommandName |-> cmd], "F_lock")

FailedAcquire(p) ==
  /\ Acquire(p, "F_lock", "F_take")
  /\ UNCHANGED <<facadeVars, translatorVars, uriVars>>

\* ================================================================ facade
NilOptions == [nil |-> TRUE]
NilClient == 0
NilDatabase == 0
NilFacade == 0
NoMonitor == 0
NoError == [msg |-> "", cause |-> ""]

\* fmt.Errorf(msg) and fmt.Errorf(msg + ": %w", err)
Errorf(m) == [msg |-> m, cause |-> ""]
Wrap(m, err) == [msg |-> m, cause |-> err]

\* ---------------------------------------------------------------- buildURI
\* Strings are sequences of characters.
RECURSIVE Concat(_)
Concat(parts) == IF parts = <<>> THEN <<>> ELSE Head(parts) \o Concat(Tail(parts))

Str(w) == CASE w = "mongodb://" -> <<"m", "o", "n", "g", "o", "d", "b", ":", "/", "/">>
            [] w = "authSource" -> <<"a", "u", "t", "h", "S", "o", "u", "r", "c", "e">>

Letters == {"a", "b", "c", "d", "e", "g", "h", "m", "n", "o", "p", "r", "s", "t", "u",
            "A", "S", "0", "1", "2", "3", "4", "5", "6", "7", "8", "9"}

\* shouldEscape of net/url in query-component mode: everything is escaped
\* except letters, digits and - _ . ~
Unreserved(c) == c \in Letters \cup {"-", "_", ".", "~"}

\* The two upper-case hex digits of the character's byte.
HexOf(c) == CASE c = "@" -> <<"4", "0">> [] c = ":" -> <<"3", "A">>
              [] c = "/" -> <<"2", "F">> [] c = "?" -> <<"3", "F">>
              [] c = "%" -> <<"2", "5">> [] c = "=" -> <<"3", "D">>
              [] c = "&" -> <<"2", "6">> [] c = "+" -> <<"2", "B">>
              [] c = "#" -> <<"2", "3">> [] c = "$" -> <<"2", "4">>

\* url.QueryEscape
RECURSIVE QueryEscape(_)
QueryEscape(str) ==
  IF str = <<>> THEN <<>>
  ELSE LET c == Head(str) IN
       (IF Unreserved(c) THEN <<c>>
        ELSE IF c = " " THEN <<"+">>
        ELSE <<"%">> \o HexOf(c)) \o QueryEscape(Tail(str))

\* The value is written into the query string as it is.
QueryEncode_Raw(query) ==
  IF "authSource" \in DOMAIN query
  THEN Concat(<<Str("authSource"), <<"=">>, query["authSource"]>>)
  ELSE <<>>

\* url.Values{}.Encode() of the one key the function may set
QueryEncode(query) ==
  IF "authSource" \in DOMAIN query
  THEN Concat(<<Str("authSource"), <<"=">>, QueryEscape(query["authSource"])>>)
  ELSE <<>>

\* Credentials are written when either of the two is set.
HasCredentials_Either(opts) == opts.Username # <<>> \/ opts.Password # <<>>

\* if opts.Username != "" && opts.Password != ""
HasCredentials(opts) == opts.Username # <<>> /\ opts.Password # <<>>

buildURI(opts) ==
  LET base == IF HasCredentials(opts)
             THEN Concat(<<Str("mongodb://"), QueryEscape(opts.Username), <<":">>,
                           QueryEscape(opts.Password), <<"@">>, opts.Host, <<":">>,
                           FormatInt(opts.Port)>>)
             ELSE Concat(<<Str("mongodb://"), opts.Host, <<":">>, FormatInt(opts.Port)>>)
      query == IF opts.AuthSource # <<>>
               THEN [k \in {"authSource"} |-> opts.AuthSource]
               ELSE <<>>
  IN IF DOMAIN query # {} THEN Concat(<<base, <<"?">>, QueryEncode(query)>>) ELSE base

\* ------------------------------------------------------------ the callers
\* The Options values callers pass to NewMongoDB.
PlainOptions ==
  [nil |-> FALSE, Host |-> <<"h">>, Port |-> 27017, Database |-> "testdb",
   Username |-> <<>>, Password |-> <<>>, AuthSource |-> <<>>,
   MaxPoolSize |-> 100, MinPoolSize |-> 10, ConnectTimeout |-> 10, SocketTimeout |-> 30,
   EnableTrace |-> FALSE]

TracedOptions ==
  [PlainOptions EXCEPT !.Username = <<"u", "@">>, !.Password = <<"p", ":", "/">>,
                       !.AuthSource = <<"a">>, !.EnableTrace = TRUE]

OptionsArgs == {NilOptions, PlainOptions, TracedOptions}

\* The Options buildURI is applied to by itself: user names and passwords
\* of up to MaxLen characters, reserved characters and the space among them.
CredentialChars == {"u", "@", ":", "/", " "}
Credentials == UNION {[1..n -> CredentialChars] : n \in 0..MaxLen}
AuthSources == {<<>>, <<"a">>, <<"$", "e">>}
URIOptions ==
  {[PlainOptions EXCEPT !.Username = u, !.Password = pw, !.AuthSource = a] :
     u \in Credentials, pw \in Credentials, a \in AuthSources}

NotBuilt == [called |-> FALSE, value |-> <<>>]

NoURI ==
  /\ uopts = NilOptions
  /\ uri = NotBuilt

\* uri := buildURI(opts)
CallBuildURI ==
  /\ UNCHANGED <<monitorVars, facadeVars, translatorVars>>
  /\ ~uri.called
  /\ uri' = [called |-> TRUE, value |-> buildURI(uopts)]
  /\ UNCHANGED uopts
CollectionNames == {"users", "orders"}

\* What the driver's calls can return.
ConnectErrors == {"", "connect: server selection timeout"}
PingErrors == {"", "ping: context deadline exceeded"}
DisconnectErrors == {"", "disconnect: context deadline exceeded"}
ErrClientDisconnected == "client is disconnected"

\* What an operation returned: op(opts) or facade.op() gave (facade / value, err);
\* touched records whether the operation called the driver.
Return(o, a, f, e, v, t) ==
  [op |-> o, opts |-> a, facade |-> f, err |-> e, value |-> v, touched |-> t]

NoReturn == Return("none", NilOptions, NilFacade, NoError, NilDatabase, FALSE)

\* An error of the driver handed on as it is.
DriverError(e) == [msg |-> "", cause |-> e]

FacadeInit ==
  /\ opc = "idle"
  /\ oopts = NilOptions
  /\ oclientOptions = <<>>
  /\ oclient = NilClient
  /\ otrace = <<>>
  /\ clients = <<>>
  /\ monitors = <<>>
  /\ facades = <<>>
  /\ closes = <<>>
  /\ ret = NoReturn
  /\ nops = 0

\* A facade operation may begin: the facade has one owner, which runs its
\* operations one at a time.
MayBegin == opc = "idle" /\ nops < MaxOps

\* &MongoDBClient{}: the zero value, as the package's tests build it.
ZeroValue ==
  /\ UNCHANGED <<monitorVars, translatorVars, uriVars>>
  /\ MayBegin
  /\ Len(facades) < MaxFacades
  /\ facades' = Append(facades, [Client |-> NilClient, Database |-> NilDatabase,
                                 opts |-> NilOptions])
  /\ closes' = Append(closes, 0)
  /\ nops' = nops + 1
  /\ ret' = NoReturn
  /\ UNCHANGED <<opc, oopts, oclientOptions, oclient, otrace, clients, monitors>>

\* ------------------------------------------------------------- NewMongoDB
\* newTraceCommandMonitor(enableTrace): a new instance, both maps nil.
newTraceCommandMonitor(enable) ==
  [enableTrace |-> enable, commandDatabaseMap |-> NilMap, commandSpanMap |-> NilMap]

\* &event.CommandMonitor{Started: m.Started, Succeeded: m.Succeeded,
\* Failed: m.Failed}: the monitor instance each callback is bound to.
CommandMonitor(m) == [Started |-> m, Succeeded |-> m, Failed |-> m]

\* A command monitor is registered whatever the options say.
TraceEnabled_Always(opts) == TRUE

\* if opts.EnableTrace
TraceEnabled(opts) == opts.EnableTrace

\* if err != nil after mongo.Connect
ConnectFailed(err) == err # ""

\* The error of client.Ping is not looked at.
PingFailed_Ignored(err) == FALSE

\* if err := client.Ping(ctx, nil); err != nil
PingFailed(err) == err # ""

\* NewMongoDB and newMongoDB up to the call of mongo.Connect: the nil checks,
\* the URI, the client options and, with EnableTrace, the command monitor.
NewMongoDB(opts) ==
  /\ UNCHANGED <<monitorVars, translatorVars, uriVars>>
  /\ MayBegin
  /\ Len(facades) < MaxFacades
  /\ nops' = nops + 1
  /\ otrace' = <<>>
  /\ IF opts = NilOptions
     THEN /\ ret' = Return("Open", opts, NilFacade, Errorf("mongodb options cannot be nil"),
                            NilDatabase, FALSE)
          /\ UNCHANGED <<opc, oopts, oclientOptions, oclient, monitors>>
     ELSE /\ monitors' = IF TraceEnabled(opts)
                         THEN Append(monitors, newTraceCommandMonitor(opts.EnableTrace))
                         ELSE monitors
          /\ oclientOptions' =
               [uri |-> buildURI(opts), MaxPoolSize |-> opts.MaxPoolSize,
                MinPoolSize |-> opts.MinPoolSize, ConnectTimeout |-> opts.ConnectTimeout,
                SocketTimeout |-> opts.SocketTimeout,
                Monitor |-> IF TraceEnabled(opts) THEN CommandMonitor(Len(monitors'))
                            ELSE CommandMonitor(NoMonitor)]
          /\ oopts' = opts
          /\ oclient' = NilClient
          /\ opc' = "connect"
          /\ ret' = NoReturn
  /\ UNCHANGED <<clients, facades, closes>>

\* client, err := mongo.Connect(ctx, clientOptions), and the return on error
NewMongoDBConnect ==
  /\ UNCHANGED <<monitorVars, translatorVars, uriVars>>
  /\ opc = "connect"
  /\ \E err \in ConnectErrors :
       /\ otrace' = Append(otrace, [call |-> "Connect", err |-> err])
       /\ IF ConnectFailed(err)
          THEN /\ ret' = Return("Open", oopts, NilFacade,
                                 Wrap("failed to connect to mongodb", err), NilDatabase, TRUE)
               /\ opc' = "idle"
               /\ UNCHANGED <<oclient, clients>>
          ELSE /\ clients' = Append(clients, [state |-> "connected",
                                              options |-> oclientOptions,
                                              calls |-> <<"Connect">>])
               /\ oclient' = Len(clients) + 1
               /\ opc' = "ping"
               /\ UNCHANGED ret
  /\ UNCHANGED <<oopts, oclientOptions, monitors, facades, closes, nops>>

\* client.Ping(ctx, nil), the return on error, and else the facade
NewMongoDBPing ==
  /\ UNCHANGED <<monitorVars, translatorVars, uriVars>>
  /\ opc = "ping"
  /\ clients' = [clients EXCEPT ![oclient].calls = Append(@, "Ping")]
  /\ \E err \in PingErrors :
       /\ otrace' = Append(otrace, [call |-> "Ping", err |-> err])
       /\ IF PingFailed(err)
          THEN /\ ret' = Return("Open", oopts, NilFacade,
                                 Wrap("failed to ping mongodb", err), NilDatabase, TRUE)
               /\ UNCHANGED <<facades, closes>>
          ELSE /\ facades' = Append(facades, [Client |-> oclient, Database |-> oclient,
                                              opts |-> oopts])
               /\ closes' = Append(closes, 0)
               /\ ret' = Return("Open", oopts, Len(facades) + 1, NoError, NilDatabase, TRUE)
  /\ opc' = "idle"
  /\ UNCHANGED <<oopts, oclientOptions, oclient, monitors, nops>>

\* ------------------------------------------------- Close, Ping, Collection
\* Client.Disconnect of the driver: a disconnected client refuses.
Disconnect(c, err) ==
  IF clients[c].state = "connected" THEN err ELSE ErrClientDisconnected

\* Client.Ping of the driver: a disconnected client refuses.
DriverPing(c, err) ==
  IF clients[c].state = "connected" THEN err ELSE ErrClientDisconnected

Close(f) ==
  /\ UNCHANGED <<monitorVars, translatorVars, uriVars>>
  /\ MayBegin
  /\ nops' = nops + 1
  /\ closes' = [closes EXCEPT ![f] = @ + 1]
  /\ IF facades[f].Client = NilClient
     THEN /\ ret' = Return("Close", NilOptions, f, NoError, NilDatabase, FALSE)
          /\ UNCHANGED clients
     ELSE \E err \in DisconnectErrors :
            /\ clients' = [clients EXCEPT ![facades[f].Client] =
                             [@ EXCEPT !.state = "disconnected",
                                       !.calls = Append(@, "Disconnect")]]
            /\ ret' = Return("Close", NilOptions, f,
                          DriverError(Disconnect(facades[f].Client, err)), NilDatabase, TRUE)
  /\ UNCHANGED <<opc, oopts, oclientOptions, oclient, otrace, monitors, facades>>

Ping(f) ==
  /\ UNCHANGED <<monitorVars, translatorVars, uriVars>>
  /\ MayBegin
  /\ nops' = nops + 1
  /\ IF facades[f].Client = NilClient
     THEN /\ ret' = Return("Ping", NilOptions, f, Errorf("mongodb client is not initialized"),
                            NilDatabase, FALSE)
          /\ UNCHANGED clients
     ELSE \E err \in PingErrors :
            /\ clients' = [clients EXCEPT ![facades[f].Client].calls = Append(@, "Ping")]
            /\ ret' = Return("Ping", NilOptions, f,
                          DriverError(DriverPing(facades[f].Client, err)), NilDatabase, TRUE)
  /\ UNCHANGED <<opc, oopts, oclientOptions, oclient, otrace, monitors, facades, closes>>

\* The nil check of Collection never fires.
DatabaseIsNil_Never(f) == FALSE

\* if c.Database == nil
DatabaseIsNil(f) == facades[f].Database = NilDatabase

Collection(f, name) ==
  /\ UNCHANGED <<monitorVars, translatorVars, uriVars>>
  /\ MayBegin
  /\ nops' = nops + 1
  /\ ret' = IF DatabaseIsNil(f)
            THEN Return("Collection", NilOptions, f, NoError, NilDatabase, FALSE)
            ELSE Return("Collection", NilOptions, f, NoError, facades[f].Database, TRUE)
  /\ UNCHANGED <<opc, oopts, oclientOptions, oclient, otrace, clients, monitors, facades, closes>>

\* ============================================================ translator
\* Config.Validate and Config.ToOptions (src/unnamed/part_001).
NilConfig == [nil |-> TRUE]

\* time.Duration counted in milliseconds.
Second == 1000

\* pkgConfig.Duration wraps a time.Duration; Duration() takes it out.
ConfigDuration(d) == [d |-> d]
Duration(x) == x.d

\* fmt.Errorf(format, args...) with %d arguments
Errorfd(m, args) == [msg |-> m, cause |-> "", args |-> args]

\* uint64(n): n itself when n >= 0, else n wrapped around 2^64.
Uint64(n) == IF n >= 0 THEN n ELSE [wrapped |-> n]

MinPort == 1
MaxPort == 65535

\* Only the lower limit of the port is tested.
PortOutOfRange_NoUpper(port) == port < MinPort

\* c.Port < 1 || c.Port > 65535
PortOutOfRange(port) == port < MinPort \/ port > MaxPort

\* Validate tests the fields of a disabled configuration as well.
ValidateSkips_Never(c) == FALSE

\* if !c.Enabled { return nil }
ValidateSkips(c) == ~c.Enabled

Validate(c) ==
  IF c = NilConfig THEN Errorf("mongodb config cannot be nil")
  ELSE IF ValidateSkips(c) THEN NoError
  ELSE IF c.Database = "" THEN Errorf("mongodb database is required")
  ELSE IF PortOutOfRange(c.Port)
       THEN Errorfd("mongodb port must be between 1 and 65535, got %d", <<FormatInt(c.Port)>>)
  ELSE IF c.MaxPoolSize < 1
       THEN Errorfd("mongodb max_pool_size must be greater than 0, got %d",
                    <<FormatInt(c.MaxPoolSize)>>)
  ELSE IF c.MinPoolSize < 0
       THEN Errorfd("mongodb min_pool_size must be non-negative, got %d",
                    <<FormatInt(c.MinPoolSize)>>)
  ELSE IF c.MaxPoolSize > 0 /\ c.MinPoolSize > 0 /\ c.MinPoolSize > c.MaxPoolSize
       THEN Errorfd("mongodb min_pool_size (%d) cannot be greater than max_pool_size (%d)",
                    <<FormatInt(c.MinPoolSize), FormatInt(c.MaxPoolSize)>>)
  ELSE NoError

\* connectTimeout := c.ConnectTimeout.Duration(); zero becomes 10 seconds
connectTimeout(c) ==
  IF Duration(c.ConnectTimeout) = 0 THEN 10 * Second ELSE Duration(c.ConnectTimeout)

\* A zero socket timeout becomes the connect timeout's default.
socketTimeout_ConnectDefault(c) ==
  IF Duration(c.SocketTimeout) = 0 THEN 10 * Second ELSE Duration(c.SocketTimeout)

\* socketTimeout := c.SocketTimeout.Duration(); zero becomes 30 seconds
socketTimeout(c) ==
  IF Duration(c.SocketTimeout) = 0 THEN 30 * Second ELSE Duration(c.SocketTimeout)

\* ToOptions returns (*Options, error).
ToOptions(c) ==
  IF Validate(c) # NoError THEN [opts |-> NilOptions, err |-> Validate(c)]
  ELSE IF ~c.Enabled THEN [opts |-> NilOptions, err |-> Errorf("mongodb is not enabled")]
  ELSE [opts |-> [nil |-> FALSE, Host |-> c.Host, Port |-> c.Port, Database |-> c.Database,
                  Username |-> c.Username, Password |-> c.Password,
                  AuthSource |-> c.AuthSource,
                  MaxPoolSize |-> Uint64(c.MaxPoolSize),
                  MinPoolSize |-> Uint64(c.MinPoolSize),
                  ConnectTimeout |-> connectTimeout(c),
                  SocketTimeout |-> socketTimeout(c),
                  EnableTrace |-> c.EnableTrace],
        err |-> NoError]

\* The configurations callers translate: the fields the translator reads
\* range over values on both sides of each limit.
Ports == {MinPort - 1, MinPort, MaxPort, MaxPort + 1}
PoolSizes == (0 - 1)..MaxPoolSizeArg
Timeouts == {ConfigDuration(d) : d \in (0 - 1)..MaxTimeoutArg}
                \cup {ConfigDuration(10 * Second), ConfigDuration(30 * Second)}

Configs ==
  {NilConfig} \cup
  [nil : {FALSE}, Enabled : BOOLEAN, Host : {<<"h">>}, Port : Ports,
   Database : {"", "testdb"}, Username : {<<>>}, Password : {<<>>},
   AuthSource : {<<"a">>}, MaxPoolSize : PoolSizes, MinPoolSize : PoolSizes,
   ConnectTimeout : Timeouts, SocketTimeout : Timeouts, EnableTrace : {TRUE}]

\* The configuration of a run of the monitor or of the facade: none.
NotValidated == [called |-> FALSE, err |-> NoError]
NotTranslated == [called |-> FALSE, opts |-> NilOptions, err |-> NoError]

NoTranslation ==
  /\ config = NilConfig
  /\ vret = NotValidated
  /\ tret = NotTranslated

\* err := c.Validate()
CallValidate ==
  /\ UNCHANGED <<monitorVars, facadeVars, uriVars>>
  /\ ~vret.called
  /\ vret' = [called |-> TRUE, err |-> Validate(config)]
  /\ UNCHANGED <<config, tret>>

\* opts, err := c.ToOptions()
CallToOptions ==
  /\ UNCHANGED <<monitorVars, facadeVars, uriVars>>
  /\ ~tret.called
  /\ tret' = [called |-> TRUE, opts |-> ToOptions(config).opts, err |-> ToOptions(config).err]
  /\ UNCHANGED <<config, vret>>

\* --------------------------------------------------------- specification
Init == MonitorInit /\ FacadeInit /\ NoTranslation /\ NoURI

Next ==
  \E p \in Procs :
    \/ StartedLock(p)
    \/ StartedPutDatabase(p)
    \/ StartedStartSpan(p)
    \/ StartedPutSpan(p)
    \/ StartedUnlock(p)
    \/ SucceededLock(p)
    \/ SucceededTake(p)
    \/ SucceededUnlock(p)
    \/ SucceededSetAttributes(p)
    \/ SucceededSetStatus(p)
    \/ SucceededEnd(p)
    \/ SucceededLog(p)
    \/ SucceededReturn(p)
    \/ FailedLock(p)
    \/ FailedTake(p)
    \/ FailedUnlock(p)
    \/ FailedSetAttributes(p)
    \/ FailedSetStatus(p)
    \/ FailedRecordError(p)
    \/ FailedEnd(p)
    \/ FailedLog(p)
    \/ FailedReturn(p)

\* The command monitor under concurrent driver callbacks.
Spec == Init /\ [][Next]_vars

\* m.mu.Lock() of goroutine p.
LockStep(p) ==
  \/ StartedAcquire(p)
  \/ SucceededAcquire(p)
  \/ FailedAcquire(p)

\* Every other step of goroutine p inside a callback.
BodyStep(p) ==
  \/ StartedPutDatabase(p)
  \/ StartedStartSpan(p)
  \/ StartedPutSpan(p)
  \/ StartedUnlock(p)
  \/ SucceededTake(p)
  \/ SucceededUnlock(p)
  \/ SucceededSetAttributes(p)
  \/ SucceededSetStatus(p)
  \/ SucceededEnd(p)
  \/ SucceededLog(p)
  \/ SucceededReturn(p)
  \/ FailedTake(p)
  \/ FailedUnlock(p)
  \/ FailedSetAttributes(p)
  \/ FailedSetStatus(p)
  \/ FailedRecordError(p)
  \/ FailedEnd(p)
  \/ FailedLog(p)
  \/ FailedReturn(p)

LiveNext ==
  \E p \in Procs :
    \/ StartedCall(p)
    \/ SucceededCall(p)
    \/ FailedCall(p)
    \/ LockStep(p)
    \/ BodyStep(p)

\* The scheduler runs every goroutine that can take a step, the collaborators
\* return, and the mutex hands the lock to a goroutine that keeps waiting
\* for it (sync.Mutex leaves no waiter behind for ever); the driver is free
\* to invoke no further callback.
Fairness == \A p \in Procs : WF_vars(BodyStep(p)) /\ SF_vars(LockStep(p))

\* The command monitor with callbacks that wait for the lock, under fair
\* scheduling.
LiveSpec == Init /\ [][LiveNext]_vars /\ Fairness

FacadeNext ==
  \/ ZeroValue
  \/ \E opts \in OptionsArgs : NewMongoDB(opts)
  \/ NewMongoDBConnect
  \/ NewMongoDBPing
  \/ \E f \in DOMAIN facades : Close(f)
  \/ \E f \in DOMAIN facades : Ping(f)
  \/ \E f \in DOMAIN facades, name \in CollectionNames : Collection(f, name)

\* The client facade under its owner's calls.
FacadeSpec == Init /\ [][FacadeNext]_vars

TranslatorInit ==
  /\ MonitorInit
  /\ FacadeInit
  /\ config \in Configs
  /\ vret = NotValidated
  /\ tret = NotTranslated
  /\ NoURI

TranslatorNext ==
  \/ CallValidate
  \/ CallToOptions

\* Validate and ToOptions applied to each configuration.
TranslatorSpec == TranslatorInit /\ [][TranslatorNext]_vars

URIInit ==
  /\ MonitorInit
  /\ FacadeInit
  /\ NoTranslation
  /\ uopts \in URIOptions
  /\ uri = NotBuilt

URINext == CallBuildURI

\* buildURI applied to each parameter set.
URISpec == URIInit /\ [][URINext]_vars

\* ------------------------------------------------------------ properties
AllIdle == \A p \in Procs : pc[p] = "idle"
MapsEmpty == MapKeys(commandDatabaseMap) = {} /\ MapKeys(commandSpanMap) = {}
OneEach(id) == received[id].started = 1 /\ received[id].completed = 1

\* Positions of Succeeded / Failed after the entries were read and deleted.
AfterTake == {"U_unlock", "U_attr", "U_status", "U_end", "U_log", "U_ret",
              "F_unlock", "F_attr", "F_status", "F_record", "F_end", "F_log", "F_ret"}
SpanSteps == {"U_attr", "U_status", "U_end", "F_attr", "F_status", "F_record", "F_end"}
Returning == {"U_ret", "F_ret"}
Taking == {"U_take", "F_take"}
Steps(p) == pc'[p] # pc[p]
EndCount(ops) == Cardinality({i \in 1..Len(ops) : ops[i].op = "End"})

\* C1 as stated: whenever every identifier used has received one Started and
\* one completion notification, in whatever order, and all callbacks have
\* returned, both correlation maps are empty.
C1_EmptyAfterOneEach_AnyOrder ==
  (AllIdle /\ \A id \in UsedIDs : OneEach(id)) => MapsEmpty

\* C1 amended: whenever every identifier used has received one Started and one
\* completion notification, its Started having taken the lock before its
\* completion, and all callbacks have returned, both correlation maps are empty.
C1_EmptyAfterStartedThenCompleted ==
  (AllIdle /\ \A id \in UsedIDs : OneEach(id) /\ received[id].first = "Started")
    => MapsEmpty

C1_Witness ==
  /\ AllIdle
  /\ enableTrace
  /\ UsedIDs = RequestIDs
  /\ \A id \in RequestIDs : OneEach(id) /\ received[id].first = "Started"
  /\ MapsEmpty

\* C2: a Succeeded / Failed call has emitted exactly one log record when it
\* returns (info for Succeeded, error for Failed) and none before its log
\* statement, Started emits none; the span it took from the map has then been
\* ended exactly once, no span is ever ended twice, and a span a completion
\* has taken is in the map no longer and is held by no other callback.
C2_OneLogRecordAndOneEnd ==
  /\ \A s \in DOMAIN spanOps : EndCount(spanOps[s]) <= 1
  /\ \A p \in Procs :
       /\ pc[p] \in Returning =>
            /\ Len(log[p]) = 1
            /\ log[p][1].level = (IF pc[p] = "U_ret" THEN "info" ELSE "error")
            /\ span[p] # NilSpan => EndCount(spanOps[span[p]]) = 1
       /\ pc[p] \notin Returning => log[p] = <<>>
       /\ (pc[p] \in AfterTake /\ span[p] # NilSpan) =>
            /\ span[p] \notin MapValues(commandSpanMap)
            /\ \A q \in Procs \ {p} : span[q] # span[p]

\* Two completions of one identifier race: one took the span and ended it,
\* the other found nothing.
C2_Witness ==
  \E p, q \in Procs :
    /\ p # q
    /\ pc[p] \in Returning /\ pc[q] \in AfterTake
    /\ evt[p].RequestID = evt[q].RequestID
    /\ span[p] # NilSpan /\ EndCount(spanOps[span[p]]) = 1
    /\ span[q] = NilSpan
    /\ Len(log[p]) = 1

\* C3: a Succeeded / Failed call whose identifier has no entry (also when the
\* maps were never allocated) does not panic, leaves both maps as they are,
\* gets no span and so performs no span operation, and its log record carries
\* the empty database name.
C3_MissState ==
  \A p \in Procs :
    /\ pc[p] # "panic"
    /\ (pc[p] \in AfterTake /\ ~hit[p]) =>
         /\ span[p] = NilSpan
         /\ pc[p] \notin SpanSteps
         /\ dbName[p] = ""
         /\ pc[p] \in Returning => (Len(log[p]) = 1 /\ log[p][1].database = "")

C3_MissStep ==
  \A p \in Procs :
    (pc[p] \in Taking /\ Steps(p)
       /\ evt[p].RequestID \notin MapKeys(commandDatabaseMap)
       /\ evt[p].RequestID \notin MapKeys(commandSpanMap))
    => /\ commandDatabaseMap' = commandDatabaseMap
       /\ commandSpanMap' = commandSpanMap
       /\ spanOps' = spanOps
       /\ ~hit'[p]

C3_CorrelationMiss == [][C3_MissStep]_vars /\ []C3_MissState

\* A completion arrived before any Started: the maps are still nil.
C3_Witness ==
  \E p \in Procs :
    /\ pc[p] \in Returning
    /\ ~hit[p]
    /\ commandDatabaseMap.nil /\ commandSpanMap.nil
    /\ Len(log[p]) = 1 /\ log[p][1].database = ""

\* C4: no call to the tracing collaborator and no call to the logging
\* collaborator is made by a callback while it holds the monitor's lock.
C4_NoCollaboratorCallUnderLock ==
  /\ \A s \in DOMAIN spanOps : \A i \in 1..Len(spanOps[s]) : ~spanOps[s][i].locked
  /\ \A p \in Procs : \A i \in 1..Len(log[p]) : ~log[p][i].locked

\* C5: Started never panics and its assignments replace whatever entry the
\* identifier had; the completion that next takes the lock reads the database
\* name of the latest Started of its identifier and leaves the identifier in
\* neither map.
C5_OverwriteStep ==
  \A p \in Procs :
    /\ (pc[p] = "S_putdb" /\ Steps(p)) =>
         /\ pc'[p] # "panic"
         /\ MapGet(commandDatabaseMap', evt[p].RequestID, "") = evt[p].DatabaseName
    /\ (pc[p] = "S_putspan" /\ Steps(p)) =>
         /\ pc'[p] # "panic"
         /\ MapGet(commandSpanMap', evt[p].RequestID, NilSpan) = span[p]
    /\ (pc[p] \in Taking /\ Steps(p)) =>
         /\ dbName'[p] = latest[evt[p].RequestID]
         /\ evt[p].RequestID \notin MapKeys(commandDatabaseMap')
         /\ evt[p].RequestID \notin MapKeys(commandSpanMap')

C5_LatestStartedWins == [][C5_OverwriteStep]_vars

\* A second Started has replaced the database name of a pending identifier:
\* the span still stored for it was opened for another database.
C5_Witness ==
  \E p \in Procs :
    /\ pc[p] = "S_span"
    /\ evt[p].RequestID \in MapKeys(commandSpanMap)
    /\ commandDatabaseMap.kv[evt[p].RequestID] = evt[p].DatabaseName
    /\ spanOps[commandSpanMap.kv[evt[p].RequestID]][1].arg # evt[p].DatabaseName

\* C6: once every Started has been followed by the completion of its
\* identifier and all callbacks have returned, every span that was opened
\* has been ended: none is left open and none died without End.
C6_EverySpanEnded ==
  (AllIdle /\ \A id \in RequestIDs : latest[id] = "")
    => (dropped = 0 /\ \A s \in DOMAIN spanOps : Ended(spanOps[s]))

\* The operations on a span, as operation and argument.
OpsOf(s) == [i \in 1..Len(spanOps[s]) |-> <<spanOps[s][i].op, spanOps[s][i].arg>>]
IsPrefix(a, b) == Len(a) <= Len(b) /\ a = SubSeq(b, 1, Len(a))
SucceededOps == <<<<"SetAttributes", "db.duration_ms">>, <<"SetStatus", "Ok">>, <<"End", "">>>>
FailedOps == <<<<"SetAttributes", "db.duration_ms">>, <<"SetStatus", "Error">>,
               <<"RecordError", "Error">>, <<"End", "">>>>

\* C18: the operations on a span after its start are those of Succeeded
\* (duration attribute, status Ok, End) or those of Failed (duration
\* attribute, status Error, RecordError, End), in that order and up to where
\* the completion holding the span stands, so nothing follows End; a
\* completion that took a span writes its log record only after the span
\* has been ended with all operations of its kind.
C18_OrderState ==
  /\ \A s \in DOMAIN spanOps :
       /\ spanOps[s][1].op = "Start"
       /\ \/ IsPrefix(Tail(OpsOf(s)), SucceededOps)
          \/ IsPrefix(Tail(OpsOf(s)), FailedOps)
  /\ \A p \in Procs :
       (pc[p] \in {"U_log", "U_ret", "F_log", "F_ret"} /\ span[p] # NilSpan) =>
         Tail(OpsOf(span[p])) = (IF evt[p].kind = "Succeeded" THEN SucceededOps ELSE FailedOps)

C18_LogStep ==
  \A p \in Procs :
    (log'[p] # log[p] /\ log'[p] # <<>> /\ span[p] # NilSpan) =>
      /\ Ended(spanOps[span[p]])
      /\ spanOps' = spanOps

C18_SpanOperationOrder == [][C18_LogStep]_vars /\ []C18_OrderState

\* Failed has performed its four operations on the span it took and logged.
C18_Witness ==
  \E p \in Procs :
    /\ pc[p] = "F_ret"
    /\ span[p] # NilSpan
    /\ Tail(OpsOf(span[p])) = FailedOps
    /\ Len(log[p]) = 1

\* The identifier a step of goroutine p is about.
IdOf(p) == IF evt[p].RequestID # 0 THEN evt[p].RequestID ELSE evt'[p].RequestID
SameEntry(m1, m2, y, zero) ==
  /\ (y \in MapKeys(m1)) <=> (y \in MapKeys(m2))
  /\ MapGet(m1, y, zero) = MapGet(m2, y, zero)

\* C19: a step of a callback for identifier x leaves the entries of every
\* other identifier in both maps as they are; the database-name entry of an
\* identifier is there, holding the name of its latest Started, until a
\* completion of that identifier takes it; the completion reads that name
\* and its log record carries it.
C19_FrameStep ==
  \A p \in Procs :
    Steps(p) =>
      /\ \A y \in RequestIDs \ {IdOf(p)} :
           /\ SameEntry(commandDatabaseMap, commandDatabaseMap', y, "")
           /\ SameEntry(commandSpanMap, commandSpanMap', y, NilSpan)
      /\ pc[p] \in Taking => dbName'[p] = latest[evt[p].RequestID]

C19_EntryState ==
  /\ \A id \in RequestIDs :
       /\ MapGet(commandDatabaseMap, id, "") = latest[id]
       /\ (id \in MapKeys(commandDatabaseMap)) <=> (latest[id] # "")
  /\ \A p \in Procs :
       pc[p] \in Returning => (Len(log[p]) = 1 /\ log[p][1].database = dbName[p])

C19_NoCrossTalk == [][C19_FrameStep]_vars /\ []C19_EntryState

\* A completion of identifier 1 has logged its database name while the entry
\* of identifier 2, which holds another name and has had no completion, is
\* still in the map.
C19_Witness ==
  \E p \in Procs :
    /\ pc[p] \in Returning
    /\ evt[p].RequestID = 1
    /\ hit[p]
    /\ log[p][1].database = "a"
    /\ received[2].completed = 0
    /\ MapGet(commandDatabaseMap, 2, "") = "b"

\* -------------------------------------------------- properties: facade
Owned == {facades[f].Client : f \in DOMAIN facades} \ {NilClient}
DisconnectCalls(c) ==
  Cardinality({i \in 1..Len(clients[c].calls) : clients[c].calls[i] = "Disconnect"})
NotInitialized == Errorf("mongodb client is not initialized")

\* C7: Close of a facade without a client returns success, and after a facade
\* has been closed once every further Close returns success without calling
\* the driver: no client is asked to disconnect twice.
C7_CloseIdempotent ==
  /\ \A c \in DOMAIN clients : DisconnectCalls(c) <= 1
  /\ ret.op = "Close" =>
       /\ facades[ret.facade].Client = NilClient => ret.err = NoError
       /\ closes[ret.facade] >= 2 => (ret.err = NoError /\ ~ret.touched)

\* C8: Ping of a facade that is not connected, because it was never opened or
\* because it was closed, returns the "not initialized" error without calling
\* the driver; a closed facade's client stays disconnected.
C8_PingNotInitialized ==
  /\ \A f \in DOMAIN facades :
       (closes[f] > 0 /\ facades[f].Client # NilClient)
         => clients[facades[f].Client].state = "disconnected"
  /\ ret.op = "Ping" =>
       ((facades[ret.facade].Client = NilClient \/ closes[ret.facade] > 0)
          => (ret.err = NotInitialized /\ ~ret.touched))

\* C9: a client that newMongoDB connected and did not return in a facade has
\* been disconnected by the time newMongoDB has returned.
C9_FailedOpenReleasesConnection ==
  \A c \in DOMAIN clients :
    (c \notin Owned /\ ~(opc = "ping" /\ oclient = c))
      => clients[c].state = "disconnected"

\* C10: NewMongoDB returns a facade with both handles set and no error, or no
\* facade and an error. Nil options give the nil-options error before the
\* driver is called; a failed Connect gives no facade and an error wrapping
\* Connect's; a failed Ping after Connect gives no facade and an error
\* wrapping Ping's; a facade is returned exactly after Connect and then Ping
\* have both succeeded.
C10_OpenAllOrNothing ==
  /\ ret.op = "Open" =>
       /\ (ret.facade = NilFacade) <=> (ret.err # NoError)
       /\ CASE ret.opts = NilOptions ->
                 /\ otrace = <<>>
                 /\ ret.facade = NilFacade
                 /\ ret.err = Errorf("mongodb options cannot be nil")
            [] ret.opts # NilOptions /\ Len(otrace) = 1 ->
                 /\ otrace[1].call = "Connect" /\ otrace[1].err # ""
                 /\ ret.facade = NilFacade
                 /\ ret.err = Wrap("failed to connect to mongodb", otrace[1].err)
            [] ret.opts # NilOptions /\ Len(otrace) = 2 ->
                 /\ otrace[1] = [call |-> "Connect", err |-> ""]
                 /\ otrace[2].call = "Ping"
                 /\ IF otrace[2].err # ""
                    THEN /\ ret.facade = NilFacade
                         /\ ret.err = Wrap("failed to ping mongodb", otrace[2].err)
                    ELSE /\ ret.facade # NilFacade
                         /\ facades[ret.facade].Client # NilClient
                         /\ facades[ret.facade].Database # NilDatabase
                         /\ facades[ret.facade].opts = ret.opts
            [] OTHER -> FALSE
  /\ \A f \in DOMAIN facades :
       facades[f].Client # NilClient =>
         /\ facades[f].Database # NilDatabase
         /\ SubSeq(clients[facades[f].Client].calls, 1, 2) = <<"Connect", "Ping">>

\* NewMongoDB has returned a facade after an earlier NewMongoDB failed at Ping.
C10_Witness ==
  /\ ret.op = "Open"
  /\ ret.facade # NilFacade
  /\ otrace = <<[call |-> "Connect", err |-> ""], [call |-> "Ping", err |-> ""]>>
  /\ \E c \in DOMAIN clients : c \notin Owned

\* C11: Collection on a facade without a database handle returns nil, no
\* error, without calling the driver, and the call changes no facade, no
\* client and no monitor.
C11_NilState ==
  (ret.op = "Collection" /\ facades[ret.facade].Database = NilDatabase)
    => (ret.value = NilDatabase /\ ret.err = NoError /\ ~ret.touched)

C11_NilStep ==
  (ret'.op = "Collection" /\ nops' = nops + 1
     /\ facades[ret'.facade].Database = NilDatabase)
    => /\ facades' = facades
       /\ clients' = clients
       /\ monitors' = monitors
       /\ closes' = closes
       /\ opc' = opc

C11_CollectionNilOnUnopened == [][C11_NilStep]_vars /\ []C11_NilState

\* Collection was called on a zero-value facade while another facade is open.
C11_Witness ==
  /\ ret.op = "Collection"
  /\ facades[ret.facade].Database = NilDatabase
  /\ ret.value = NilDatabase
  /\ \E f \in DOMAIN facades : facades[f].Database # NilDatabase

\* ---------------------------------------------- properties: translator
EnabledConfig == config # NilConfig /\ config.Enabled
NotEnabledError == Errorf("mongodb is not enabled")
Invalid(c) ==
  \/ c.Database = ""
  \/ c.Port < 1 \/ c.Port > 65535
  \/ c.MaxPoolSize < 1
  \/ c.MinPoolSize < 0
  \/ c.MinPoolSize > c.MaxPoolSize

\* C12: for an enabled configuration Validate and ToOptions fail exactly when
\* the database name is empty, the port is outside [1, 65535], max_pool_size
\* is below 1, min_pool_size is negative or min_pool_size exceeds
\* max_pool_size; a failure is a validation error and gives no Options, and
\* the Options produced otherwise have a non-empty database, a port in
\* [1, 65535], MaxPoolSize >= 1 and MinPoolSize <= MaxPoolSize.
C12_ValidationExact ==
  EnabledConfig =>
    /\ vret.called => ((vret.err # NoError) <=> Invalid(config))
    /\ tret.called =>
         /\ (tret.err # NoError) <=> Invalid(config)
         /\ tret.err # NoError => (tret.opts = NilOptions /\ tret.err # NotEnabledError)
         /\ tret.err = NoError =>
              /\ tret.opts # NilOptions
              /\ tret.opts.Database # ""
              /\ tret.opts.Port >= 1 /\ tret.opts.Port <= 65535
              /\ tret.opts.MaxPoolSize >= 1
              /\ tret.opts.MinPoolSize <= tret.opts.MaxPoolSize

\* A configuration on the limits (highest port, equal pool sizes) was translated.
C12_Witness ==
  /\ EnabledConfig
  /\ vret.called /\ tret.called
  /\ tret.err = NoError
  /\ tret.opts.Port = 65535
  /\ tret.opts.MinPoolSize = tret.opts.MaxPoolSize

\* C13: ToOptions of a disabled configuration returns no Options and the
\* "mongodb is not enabled" error whatever its other fields hold; Validate
\* never returns that error and ToOptions returns it for no enabled
\* configuration.
C13_DisabledNeverTranslates ==
  /\ vret.called => vret.err # NotEnabledError
  /\ (tret.called /\ config # NilConfig /\ ~config.Enabled) =>
       (tret.opts = NilOptions /\ tret.err = NotEnabledError)
  /\ (tret.called /\ tret.err = NotEnabledError) => (config # NilConfig /\ ~config.Enabled)

\* A disabled configuration whose fields would all fail validation was translated.
C13_Witness ==
  /\ config # NilConfig /\ ~config.Enabled
  /\ config.Database = "" /\ config.Port = 0
  /\ config.MaxPoolSize < 1 /\ config.MinPoolSize < 0
  /\ vret.called /\ vret.err = NoError
  /\ tret.called /\ tret.err = NotEnabledError

\* C14: the Options produced have ConnectTimeout 10 s when the configured
\* connect timeout is zero and the configured value otherwise, SocketTimeout
\* 30 s when the configured socket timeout is zero and the configured value
\* otherwise; neither is ever zero.
C14_TimeoutDefaults ==
  (tret.called /\ tret.err = NoError) =>
    /\ tret.opts.ConnectTimeout =
         (IF Duration(config.ConnectTimeout) = 0 THEN 10 * Second
          ELSE Duration(config.ConnectTimeout))
    /\ tret.opts.SocketTimeout =
         (IF Duration(config.SocketTimeout) = 0 THEN 30 * Second
          ELSE Duration(config.SocketTimeout))
    /\ tret.opts.ConnectTimeout # 0
    /\ tret.opts.SocketTimeout # 0

\* A zero socket timeout got its default while the configured connect timeout was kept.
C14_Witness ==
  /\ tret.called /\ tret.err = NoError
  /\ Duration(config.SocketTimeout) = 0
  /\ tret.opts.SocketTimeout = 30 * Second
  /\ Duration(config.ConnectTimeout) = 1
  /\ tret.opts.ConnectTimeout = 1

\* ------------------------------------------------ properties: buildURI
Count(str, c) == Cardinality({i \in 1..Len(str) : str[i] = c})
HostPort(opts) == Concat(<<opts.Host, <<":">>, FormatInt(opts.Port)>>)
NoCredentials(opts) == [opts EXCEPT !.Username = <<>>, !.Password = <<>>]
BothSet(opts) == opts.Username # <<>> /\ opts.Password # <<>>
ExactlyOneSet(opts) == (opts.Username # <<>>) # (opts.Password # <<>>)

\* C15: with exactly one of Username and Password set, buildURI returns what
\* it returns for the same Options with neither set: scheme, host and port
\* follow each other directly and the URI holds no '@'.
C15_HalfCredentialsOmitted ==
  (uri.called /\ ExactlyOneSet(uopts)) =>
    /\ uri.value = buildURI(NoCredentials(uopts))
    /\ SubSeq(uri.value, 1, 10 + Len(HostPort(uopts))) =
         Str("mongodb://") \o HostPort(uopts)
    /\ Count(uri.value, "@") = 0

\* buildURI was called with a password holding reserved characters and no user name.
C15_Witness ==
  /\ uri.called
  /\ uopts.Username = <<>>
  /\ uopts.Password = <<"@", ":">>
  /\ uopts.AuthSource # <<>>
  /\ Count(uri.value, "@") = 0

\* The URI of the claim, with the auth-source written as value(AuthSource).
ExpectedURI(opts, value(_)) ==
  Concat(<<Str("mongodb://"),
           IF BothSet(opts)
           THEN Concat(<<QueryEscape(opts.Username), <<":">>,
                         QueryEscape(opts.Password), <<"@">>>>)
           ELSE <<>>,
           HostPort(opts),
           IF opts.AuthSource # <<>>
           THEN Concat(<<<<"?">>, Str("authSource"), <<"=">>, value(opts.AuthSource)>>)
           ELSE <<>>>>)

AsItIs(str) == str

\* C16 as stated: the URI is mongodb://{host}:{port}, with
\* {escaped_user}:{escaped_pass}@ before the host when both credentials are
\* set, followed by ?authSource={value}, the value as it is, exactly when
\* the auth-source is non-empty; it holds no '?' when the auth-source is empty.
C16_ExactURI_RawAuthSource ==
  (uri.called /\ ~ExactlyOneSet(uopts)) =>
    /\ uri.value = ExpectedURI(uopts, AsItIs)
    /\ uopts.AuthSource = <<>> => Count(uri.value, "?") = 0

\* C16 amended: the same, with the auth-source value query-escaped after
\* ?authSource= .
C16_ExactURI_EscapedAuthSource ==
  (uri.called /\ ~ExactlyOneSet(uopts)) =>
    /\ uri.value = ExpectedURI(uopts, QueryEscape)
    /\ uopts.AuthSource = <<>> => Count(uri.value, "?") = 0
    /\ uopts.AuthSource # <<>> => Count(uri.value, "?") = 1

\* buildURI was called with both credentials and an auth-source that holds a
\* character the query string escapes.
C16_Witness ==
  /\ uri.called
  /\ BothSet(uopts)
  /\ uopts.AuthSource = <<"$", "e">>
  /\ SubSeq(uri.value, Len(uri.value) - 3, Len(uri.value)) = <<"%", "2", "4", "e">>

\* Percent-decoding: %XX gives the character with that byte, every other
\* character stands for itself.
Escapable == {"@", ":", "/", "?", "%", "=", "&", "+", "#", "$"}
Unhex(a, b) == CHOOSE c \in Escapable : HexOf(c) = <<a, b>>
RECURSIVE PercentDecode(_)
PercentDecode(str) ==
  IF str = <<>> THEN <<>>
  ELSE IF Head(str) = "%" /\ Len(str) >= 3
       THEN <<Unhex(str[2], str[3])>> \o PercentDecode(SubSeq(str, 4, Len(str)))
       ELSE <<Head(str)>> \o PercentDecode(Tail(str))

\* The credential segment of a URI: what stands between the scheme and the
\* host, the closing '@' included; its two fields are divided by its first ':'.
LastIndex(str, c) == CHOOSE i \in 1..Len(str) : str[i] = c /\ \A j \in (i + 1)..Len(str) : str[j] # c
FirstIndex(str, c) == CHOOSE i \in 1..Len(str) : str[i] = c /\ \A j \in 1..(i - 1) : str[j] # c
CredentialSegment(u) == SubSeq(u, 11, LastIndex(u, "@"))
UserField(seg) == SubSeq(seg, 1, FirstIndex(seg, ":") - 1)
PasswordField(seg) == SubSeq(seg, FirstIndex(seg, ":") + 1, Len(seg) - 1)

\* C17: with both credentials set, the credential segment of the URI holds
\* one ':' (between the fields), one '@' (its last character) and no '/',
\* and percent-decoding its two fields gives back Username and Password.
C17_CredentialsRoundTrip ==
  (uri.called /\ BothSet(uopts)) =>
    /\ Count(uri.value, "@") = 1
    /\ LET seg == CredentialSegment(uri.value) IN
         /\ Count(seg, ":") = 1
         /\ Count(seg, "/") = 0
         /\ PercentDecode(UserField(seg)) = uopts.Username
         /\ PercentDecode(PasswordField(seg)) = uopts.Password

\* -------------------------------------------- properties: registration
Registered(o) == o.Monitor # CommandMonitor(NoMonitor)
MonitorOf(c) == clients[c].options.Monitor

Observing == {"S_putdb", "U_take", "F_take"}
MapsConsistent ==
  IF enableTrace THEN MapKeys(commandSpanMap) = MapKeys(commandDatabaseMap)
  ELSE MapKeys(commandSpanMap) = {}

\* C21: whenever the lock is free, and whenever a callback has just taken
\* it and looks at the maps, the span map holds the identifiers of the
\* database-name map if tracing is enabled and holds nothing if it is not;
\* every span entry is a span, never nil.
C21_MapsConsistentWhenUnlocked ==
  /\ (mu = NoProc \/ \E p \in Procs : pc[p] \in Observing) => MapsConsistent
  /\ ~enableTrace => commandSpanMap.nil
  /\ NilSpan \notin MapValues(commandSpanMap)

\* The lock is free, tracing is on, one identifier is pending in both maps
\* and another has been started and completed.
C21_Witness ==
  /\ mu = NoProc
  /\ enableTrace
  /\ MapKeys(commandDatabaseMap) = {1}
  /\ MapKeys(commandSpanMap) = {1}
  /\ received[2].started > 0 /\ received[2].completed > 0

\* ------------------------------------------------ properties: the lock
Unlocked == {"idle", "U_attr", "U_status", "U_end", "U_log", "U_ret",
             "F_attr", "F_status", "F_record", "F_end", "F_log", "F_ret"}

\* A callback takes the lock only at its call of Lock, and it does not hold
\* the lock when it returns.
C22_LockOnce ==
  \A p \in Procs :
    /\ (mu' = p /\ mu # p) => (pc[p] \in Waiting /\ pc'[p] \notin Waiting)
    /\ (pc'[p] = "idle" /\ pc[p] # "idle") => mu' # p

C22_Released ==
  \A p \in Procs : (pc[p] \in Unlocked \cup Waiting) => mu # p

\* C22: a callback takes the lock once, at its call of Lock, holds it at no
\* position after its Unlock and not when it returns, and every callback
\* that has been invoked returns in the end.
C22_DeadlockFree ==
  /\ [][C22_LockOnce]_vars
  /\ []C22_Released
  /\ \A p \in Procs : (pc[p] # "idle") ~> (pc[p] = "idle")

\* Two callbacks for one identifier wait for the lock while a third goroutine
\* is not needed: one holds the lock, the other stands before Lock.
C22_Witness ==
  \E p, q \in Procs :
    /\ p # q
    /\ mu = p
    /\ pc[q] \in Waiting
    /\ evt[p].RequestID = evt[q].RequestID

====
